---- MODULE Spec2Model ----
(***************************************************************************)
(* Model of obspy.signal.trigger (trunk/obspy.signal/obspy/signal/         *)
(* trigger.py): the onset/offset extraction triggerOnset, stepped one      *)
(* iteration of its merge loop at a time, and the characteristic functions *)
(* recSTALTApy, classicSTALTA and delayedSTALTA as pure functions.         *)
(*                                                                         *)
(* Sample indices are 0-based as in the source; a TLA+ sequence s holds    *)
(* the source's s[i] at s[i+1].  Floating-point values that the source     *)
(* divides are kept as exact fractions <<numerator, denominator>>; a zero  *)
(* denominator stands for numpy's non-finite result (nan or inf).          *)
(***************************************************************************)
EXTENDS Integers, Sequences, FiniteSets, TLC

\* ---------------------------------------------------------------- bounds
MaxLen == 6        \* longest characteristic function given to triggerOnset
MaxMaxLen == 2     \* explicit max_len arguments are drawn from 0..MaxMaxLen

MaxWave == 4       \* longest waveform given to a characteristic function
MaxAmp == 2        \* waveform samples are drawn from 0..MaxAmp
MaxWin == 2        \* nsta and nlta are drawn up to MaxWin

\* triggerOnset only compares a sample with thres1 and with thres2, so three
\* sample levels and two threshold levels give every pattern of comparisons:
\* a sample above neither, above one, or above both thresholds, with
\* thres1 > thres2, thres1 = thres2 and thres1 < thres2.
Levels == {0, 1, 2}
Thresholds == {0, 1}

\* ----------------------------------------------------- program constants
\* of.extend([1e99]): the "infinite" offset, scaled so that it is above
\* every index and every explicit max_len, and below the default max_len.
OfInf == 1000
\* max_len=9e99, the default of triggerOnset (same scale as OfInf)
MaxLenDefault == 9000
\* sta[0:nlta + nsta + 50] = 0 in delayedSTALTA
MuteExtra == 50

VARIABLES
    charfct, thres1, thres2, max_len, max_len_delete,  \* arguments
    on, of, pick,                                      \* locals of triggerOnset
    pc,            \* "start", "loop", "done", "IndexError", or "idle"
    iters,         \* outer iterations of the merge loop executed so far
    popped,        \* onset candidates removed by the last outer iteration
    branch,        \* what the last outer iteration did: "pick", "cut", "delete"
    prevBranch,    \* branch of the iteration before the last one
    forced,        \* positions in pick of the picks closed at on + max_len
    fn,            \* the characteristic function called, or "none"
    a, nsta, nlta, \* its arguments
    cpc,           \* "start", "done", or "idle"
    result         \* its outcome: [kind |-> "array" or "error", val |-> ...]

tvars == <<charfct, thres1, thres2, max_len, max_len_delete, on, of, pick,
           pc, iters, popped, branch, prevBranch, forced>>
cvars == <<fn, a, nsta, nlta, cpc, result>>
vars == <<tvars, cvars>>

\* ------------------------------------------------------------- helpers
Last(s) == s[Len(s)]

\* all sequences over S of length 0..n
SeqsUpTo(S, n) == UNION {[1..k -> S] : k \in 0..n}

\* np.where(c > th)[0]: ascending 0-based indices of the samples above th
Where(c, th) ==
    SelectSeq([i \in 1..Len(c) |-> i - 1], LAMBDA i : c[i + 1] > th)

\* positions k (1-based) with np.diff(ind)[k] > 1
GapPos(ind) ==
    SelectSeq([k \in 1..(Len(ind) - 1) |-> k], LAMBDA k : ind[k + 1] - ind[k] > 1)

\* ind2[np.diff(ind2) > 1]: the last index of every run but the final one
BeforeGap(ind) == LET ks == GapPos(ind) IN [j \in 1..Len(ks) |-> ind[ks[j]]]

\* AfterGap without its "+ 1": the index before the gap, a faulty variant
AfterGapNoPlusOne(ind) ==
    LET ks == GapPos(ind) IN [j \in 1..Len(ks) |-> ind[ks[j]]]

\* ind1[np.where(np.diff(ind1) > 1)[0] + 1]: the first index of every run
\* but the first one
AfterGap(ind) == LET ks == GapPos(ind) IN [j \in 1..Len(ks) |-> ind[ks[j] + 1]]

\* on = [ind1[0]]; on.extend(AfterGap); with max_len_delete on.extend([on[-1]])
OnQueue(ind1, del) ==
    LET q == <<ind1[1]>> \o AfterGap(ind1)
    IN  IF del THEN Append(q, Last(q)) ELSE q

\* of = [-1]; of.extend(BeforeGap); then 1e99 or ind2[-1]
OfQueue(ind2, del) ==
    LET q == <<-1>> \o BeforeGap(ind2)
    IN  IF del THEN Append(q, OfInf) ELSE Append(q, Last(ind2))

\* PopOn with "<" for "<=": an onset equal to the offset is kept (faulty variant)
RECURSIVE PopOnStrict(_, _)
PopOnStrict(onq, ofq) ==
    IF onq = <<>> \/ ofq = <<>> THEN [q |-> onq, err |-> TRUE]
    ELSE IF onq[1] < ofq[1] THEN PopOnStrict(Tail(onq), ofq)
    ELSE [q |-> onq, err |-> FALSE]

\* while on[0] <= of[0]: on.pop(0)     (err: on[0] read on an empty list)
RECURSIVE PopOn(_, _)
PopOn(onq, ofq) ==
    IF onq = <<>> \/ ofq = <<>> THEN [q |-> onq, err |-> TRUE]
    ELSE IF onq[1] <= ofq[1] THEN PopOn(Tail(onq), ofq)
    ELSE [q |-> onq, err |-> FALSE]

\* PopOf with "<=" for "<": an offset equal to the onset is popped too (faulty
\* variant)
RECURSIVE PopOfEqual(_, _)
PopOfEqual(ofq, onq) ==
    IF onq = <<>> \/ ofq = <<>> THEN [q |-> ofq, err |-> TRUE]
    ELSE IF ofq[1] <= onq[1] THEN PopOfEqual(Tail(ofq), onq)
    ELSE [q |-> ofq, err |-> FALSE]

\* while of[0] < on[0]: of.pop(0)      (err: of[0] read on an empty list)
RECURSIVE PopOf(_, _)
PopOf(ofq, onq) ==
    IF onq = <<>> \/ ofq = <<>> THEN [q |-> ofq, err |-> TRUE]
    ELSE IF ofq[1] < onq[1] THEN PopOf(Tail(ofq), onq)
    ELSE [q |-> ofq, err |-> FALSE]

\* while on[-1] > of[0]               (the guard of the merge loop)
LoopGuard(onq, ofq) == Last(onq) > ofq[1]

\* the guard reads on[-1] and of[0]
GuardErr(onq, ofq) == onq = <<>> \/ ofq = <<>>

\* ForcedOff one sample late (faulty variant)
ForcedOffLate(onset, ml) == onset + ml + 1

\* of.insert(0, on[0] + max_len): the offset forced by max_len
ForcedOff(onset, ml) == onset + ml

\* on.pop(0) in the max_len_delete branch
DropOnset(q) == Tail(q)

\* one outer iteration of the merge loop, lines 357-366
MergeIter(onq, ofq, picks, ml, del) ==
    LET po == PopOn(onq, ofq)
        pf == PopOf(ofq, po.q)
        n0 == Len(onq)
    IN  IF po.err \/ pf.err
        THEN [on |-> po.q, of |-> pf.q, pick |-> picks, err |-> TRUE,
              branch |-> "error", popped |-> n0 - Len(po.q)]
        ELSE IF pf.q[1] - po.q[1] > ml
        THEN IF del
             THEN [on |-> DropOnset(po.q), of |-> pf.q, pick |-> picks,
                   err |-> FALSE, branch |-> "delete",
                   popped |-> n0 - Len(DropOnset(po.q))]
             ELSE [on |-> po.q, of |-> <<ForcedOff(po.q[1], ml)>> \o pf.q,
                   pick |-> Append(picks, <<po.q[1], ForcedOff(po.q[1], ml)>>),
                   err |-> FALSE, branch |-> "cut", popped |-> n0 - Len(po.q)]
        ELSE [on |-> po.q, of |-> pf.q,
              pick |-> Append(picks, <<po.q[1], pf.q[1]>>),
              err |-> FALSE, branch |-> "pick", popped |-> n0 - Len(po.q)]

\* the merge loop run to its end, lines 355-367; fuel bounds the unrolling
RECURSIVE RunMerge(_, _, _, _, _, _)
RunMerge(onq, ofq, picks, ml, del, fuel) ==
    IF fuel = 0 \/ GuardErr(onq, ofq) THEN [pick |-> picks, ok |-> FALSE]
    ELSE IF ~LoopGuard(onq, ofq) THEN [pick |-> picks, ok |-> TRUE]
    ELSE LET s == MergeIter(onq, ofq, picks, ml, del)
         IN  IF s.err THEN [pick |-> picks, ok |-> FALSE]
             ELSE RunMerge(s.on, s.of, s.pick, ml, del, fuel - 1)

\* triggerOnset(charfct, thres1, thres2, max_len, max_len_delete) as a
\* function of its arguments: the returned list, and whether it returned
triggerOnset(c, t1, t2, ml, del) ==
    LET ind1 == Where(c, t1)
        ind2 == Where(c, t2)
    IN  IF ind1 = <<>> THEN [pick |-> <<>>, ok |-> TRUE]
        ELSE IF ~del /\ ind2 = <<>> THEN [pick |-> <<>>, ok |-> FALSE]
        ELSE RunMerge(OnQueue(ind1, del), OfQueue(ind2, del), <<>>, ml, del,
                      2 * Len(c) + 4)

\* ------------------------------------------------ triggerOnset, stepped
TInit ==
    /\ charfct \in SeqsUpTo(Levels, MaxLen)
    /\ thres1 \in Thresholds
    /\ thres2 \in Thresholds
    /\ max_len \in (0..MaxMaxLen) \cup {MaxLenDefault}
    /\ max_len_delete \in BOOLEAN
    /\ on = <<>> /\ of = <<>> /\ pick = <<>>
    /\ pc = "start"
    /\ iters = 0 /\ popped = 0
    /\ branch = "none" /\ prevBranch = "none"
    /\ forced = {}

\* lines 337-339: no sample above thres1, return []
ReturnEmpty ==
    /\ pc = "start"
    /\ Where(charfct, thres1) = <<>>
    /\ pc' = "done"
    /\ UNCHANGED <<charfct, thres1, thres2, max_len, max_len_delete, on, of,
                   pick, iters, popped, branch, prevBranch, forced>>
    /\ UNCHANGED cvars

\* lines 340-355: build the onset and offset queues
BuildQueues ==
    /\ pc = "start"
    /\ Where(charfct, thres1) # <<>>
    /\ LET ind1 == Where(charfct, thres1)
           ind2 == Where(charfct, thres2)
       IN  IF ~max_len_delete /\ ind2 = <<>>
           THEN \* ind2[-1] on an empty array
                /\ pc' = "IndexError"
                /\ on' = OnQueue(ind1, max_len_delete)
                /\ of' = <<-1>>
           ELSE /\ pc' = "loop"
                /\ on' = OnQueue(ind1, max_len_delete)
                /\ of' = OfQueue(ind2, max_len_delete)
    /\ UNCHANGED <<charfct, thres1, thres2, max_len, max_len_delete,
                   pick, iters, popped, branch, prevBranch, forced>>
    /\ UNCHANGED cvars

\* lines 356-366: one pass through the body of the merge loop
LoopBody ==
    /\ pc = "loop"
    /\ ~GuardErr(on, of)
    /\ LoopGuard(on, of)
    /\ LET s == MergeIter(on, of, pick, max_len, max_len_delete)
       IN  /\ on' = s.on
           /\ of' = s.of
           /\ pick' = s.pick
           /\ pc' = IF s.err THEN "IndexError" ELSE "loop"
           /\ popped' = s.popped
           /\ branch' = s.branch
           /\ forced' = IF s.branch = "cut" THEN forced \cup {Len(s.pick)}
                        ELSE forced
    /\ iters' = iters + 1
    /\ prevBranch' = branch
    /\ UNCHANGED <<charfct, thres1, thres2, max_len, max_len_delete>>
    /\ UNCHANGED cvars

\* lines 356, 367: the guard fails (or cannot be read), the loop is left
LoopExit ==
    /\ pc = "loop"
    /\ GuardErr(on, of) \/ ~LoopGuard(on, of)
    /\ pc' = IF GuardErr(on, of) THEN "IndexError" ELSE "done"
    /\ UNCHANGED <<charfct, thres1, thres2, max_len, max_len_delete, on, of,
                   pick, iters, popped, branch, prevBranch, forced>>
    /\ UNCHANGED cvars

\* no call of triggerOnset is in progress
TIdle ==
    /\ charfct = <<>> /\ thres1 = 0 /\ thres2 = 0
    /\ max_len = MaxLenDefault /\ max_len_delete = FALSE
    /\ on = <<>> /\ of = <<>> /\ pick = <<>>
    /\ pc = "idle"
    /\ iters = 0 /\ popped = 0
    /\ branch = "none" /\ prevBranch = "none"
    /\ forced = {}

\* no call of a characteristic function is in progress
CIdle ==
    /\ fn = "none" /\ a = <<>> /\ nsta = 1 /\ nlta = 1
    /\ cpc = "idle" /\ result = [kind |-> "none", val |-> <<>>]

Init == TInit /\ CIdle

Next == ReturnEmpty \/ BuildQueues \/ LoopBody \/ LoopExit

Spec == Init /\ [][Next]_vars

\* --------------------------------------------- characteristic functions
Sq(x) == x * x

RECURSIVE Pow(_, _)
Pow(b, e) == IF e <= 0 THEN 1 ELSE b * Pow(b, e - 1)

\* f[0] + ... + f[n-1]
RECURSIVE Sum(_, _)
Sum(f, n) == IF n <= 0 THEN 0 ELSE f[n - 1] + Sum(f, n - 1)

\* a Python index i into a sequence of length m: in range, and its position
InRange(i, m) == -m <= i /\ i < m
At(s, i) == IF i < 0 THEN s[Len(s) + i + 1] ELSE s[i + 1]

Zero == <<0, 1>>

\* recSTALTApy, lines 94-115.  With csta = 1/nsta and clta = 1/nlta,
\*   sta_i = S_i / nsta^i            S_i = a[i]^2 nsta^(i-1) + (nsta-1) S_(i-1)
\*   lta_i = (R_i + C_i*1e-99) / nlta^i     likewise, from lta_0 = 1e-99
\* st = <<S, R, C>>; an output is <<numerator, denominator, denominator's
\* multiple of 1e-99>>.  sta / lta on Python floats raises ZeroDivisionError
\* when lta is 0.0, as 1. / nsta and 1. / nlta do for a zero window length.
RECURSIVE RecLoop(_, _, _, _, _, _)
RecLoop(w, ns, nl, i, st, acc) ==
    IF i >= Len(w) THEN [kind |-> "array", val |-> acc]
    ELSE LET sq == Sq(w[i + 1])
             S == sq * Pow(ns, i - 1) + (ns - 1) * st[1]
             R == sq * Pow(nl, i - 1) + (nl - 1) * st[2]
             C == (nl - 1) * st[3]
         IN  IF R = 0 /\ C = 0
             THEN [kind |-> "error", val |-> "ZeroDivisionError"]
             ELSE RecLoop(w, ns, nl, i + 1, <<S, R, C>>,
                          Append(acc, IF i < nl THEN <<0, 1, 0>>
                                      ELSE <<S * Pow(nl, i), R * Pow(ns, i),
                                             C * Pow(ns, i)>>))

recSTALTApy(w, ns, nl) ==
    IF ns = 0 \/ nl = 0 THEN [kind |-> "error", val |-> "ZeroDivisionError"]
    ELSE IF w = <<>> THEN [kind |-> "array", val |-> <<>>]
    ELSE RecLoop(w, ns, nl, 1, <<0, 0, 1>>, <<<<0, 1, 0>>>>)

\* np.concatenate((pad, w[i:m - n + i] ** 2))[t] for a pad of n values padval
Shifted(w, n, padval, i, t) == IF t < n THEN padval ELSE Sq(w[i + t - n + 1])

\* for i in xrange(n): sta = sta + np.concatenate(...), at index t
WindowSum(w, n, padval, t) ==
    Sum([i \in 0..(n - 1) |-> Shifted(w, n, padval, i, t)], n)

\* classicSTALTA, lines 207-229, for 1 <= nsta, nlta <= len(a): sta / lta at
\* index t as the fraction (sta nsta nlta) / (lta nsta nlta)
classicSTALTA(w, ns, nl) ==
    [kind |-> "array",
     val |-> [k \in 1..Len(w) |->
                 <<(IF k - 1 < nl THEN 0 ELSE WindowSum(w, ns, 0, k - 1)) * nl,
                   WindowSum(w, nl, 1, k - 1) * ns>>]]

\* sta[i] * nsta and lta[i] * nlta of delayedSTALTA, lines 259-262; sta[-1]
\* and lta[-1] are read at i = 0 while they are still zero
RECURSIVE DelayedSta(_, _, _)
DelayedSta(w, ns, i) ==
    IF i < 0 THEN 0
    ELSE Sq(At(w, i)) + Sq(At(w, i - ns)) + DelayedSta(w, ns, i - 1)

RECURSIVE DelayedLta(_, _, _, _)
DelayedLta(w, ns, nl, i) ==
    IF i < 0 THEN 0
    ELSE Sq(At(w, i - ns - 1)) + Sq(At(w, i - ns - nl - 1))
         + DelayedLta(w, ns, nl, i - 1)

\* delayedSTALTA, lines 253-264, for nsta, nlta >= 1: an index below -len(a)
\* raises IndexError, a negative index above it reads from the tail
delayedSTALTA(w, ns, nl) ==
    LET m == Len(w)
    IN  IF m > 0 /\ ~InRange(0 - ns - nl - 1, m)
        THEN [kind |-> "error", val |-> "IndexError"]
        ELSE [kind |-> "array",
              val |-> [k \in 1..m |->
                  <<(IF k - 1 < nl + ns + MuteExtra THEN 0
                     ELSE DelayedSta(w, ns, k - 1)) * nl,
                    DelayedLta(w, ns, nl, k - 1) * ns>>]]

\* the waveforms and window lengths each function is called with
Waves == SeqsUpTo(0..MaxAmp, MaxWave)

\* long enough for delayedSTALTA to leave outputs unmuted: ones between a
\* first and a last sample
LongLen == MuteExtra + 2 * MaxWin + 2
LongWaves ==
    {[k \in 1..LongLen |-> IF k = 1 THEN x ELSE IF k = LongLen THEN y ELSE 1] :
        x \in 0..MaxAmp, y \in 0..MaxAmp}

DelayedWaves == Waves \cup LongWaves

CInit ==
    /\ cpc = "start"
    /\ result = [kind |-> "none", val |-> <<>>]
    /\ \/ /\ fn = "recSTALTApy"
          /\ a \in Waves
          /\ nsta \in -1..MaxWin /\ nlta \in -1..MaxWin
       \/ /\ fn = "classicSTALTA"
          /\ a \in Waves
          /\ nsta \in 1..Len(a) /\ nlta \in 1..Len(a)
       \/ /\ fn = "delayedSTALTA"
          /\ a \in DelayedWaves
          /\ nsta \in 1..MaxWin /\ nlta \in 1..MaxWin

CallRecSTALTApy ==
    /\ cpc = "start" /\ fn = "recSTALTApy"
    /\ result' = recSTALTApy(a, nsta, nlta)
    /\ cpc' = "done"
    /\ UNCHANGED <<fn, a, nsta, nlta>>
    /\ UNCHANGED tvars

CallClassicSTALTA ==
    /\ cpc = "start" /\ fn = "classicSTALTA"
    /\ result' = classicSTALTA(a, nsta, nlta)
    /\ cpc' = "done"
    /\ UNCHANGED <<fn, a, nsta, nlta>>
    /\ UNCHANGED tvars

CallDelayedSTALTA ==
    /\ cpc = "start" /\ fn = "delayedSTALTA"
    /\ result' = delayedSTALTA(a, nsta, nlta)
    /\ cpc' = "done"
    /\ UNCHANGED <<fn, a, nsta, nlta>>
    /\ UNCHANGED tvars

InitCF == TIdle /\ CInit

NextCF == CallRecSTALTApy \/ CallClassicSTALTA \/ CallDelayedSTALTA

SpecCF == InitCF /\ [][NextCF]_vars

\* ------------------------------------------------------------- claims
\* the intended regime of the thresholds
Regime == thres1 >= thres2
Returned == pc = "done"
M == Len(charfct)

\* The sequential hysteresis scan of claim C1: idle (open < 0) until a sample
\* exceeds t1; open until a sample does not exceed t2, closing at the index
\* before it; an event open after the last sample closes at the last index.
RECURSIVE Scan(_, _, _, _, _, _)
Scan(c, t1, t2, i, open, acc) ==
    IF i = Len(c)
    THEN IF open >= 0 THEN Append(acc, <<open, Len(c) - 1>>) ELSE acc
    ELSE IF open < 0
    THEN Scan(c, t1, t2, i + 1, IF c[i + 1] > t1 THEN i ELSE -1, acc)
    ELSE IF ~(c[i + 1] > t2)
    THEN Scan(c, t1, t2, i + 1, -1, Append(acc, <<open, i - 1>>))
    ELSE Scan(c, t1, t2, i + 1, open, acc)

Hysteresis(c, t1, t2) == Scan(c, t1, t2, 0, -1, <<>>)

\* C1: with thres1 >= thres2, the default max_len and max_len_delete=false,
\* triggerOnset returns exactly the picks of the sequential hysteresis scan.
C1_HysteresisScan ==
    (Returned /\ Regime /\ max_len = MaxLenDefault /\ ~max_len_delete)
        => pick = Hysteresis(charfct, thres1, thres2)

\* two events returned, the second still open at the last sample, and a
\* sample between the thresholds inside an event
C1_Witness ==
    /\ Returned /\ Regime /\ max_len = MaxLenDefault /\ ~max_len_delete
    /\ Len(pick) = 2
    /\ pick[2][2] = M - 1
    /\ \E k \in 1..2 : \E j \in pick[k][1]..pick[k][2] :
           charfct[j + 1] > thres2 /\ ~(charfct[j + 1] > thres1)

\* C2: with thres1 >= thres2 and max_len >= 0, at every point of the
\* construction of the list each pick has off >= on, the picks are strictly
\* ascending by on, and off of pick k is <= on of pick k+1.
C2_PicksOrdered ==
    Regime =>
        /\ \A k \in 1..Len(pick) : pick[k][2] >= pick[k][1]
        /\ \A k \in 1..(Len(pick) - 1) :
               /\ pick[k][1] < pick[k + 1][1]
               /\ pick[k][2] <= pick[k + 1][1]

\* the list holds three picks while the loop is still running, one of them
\* of a single sample
C2_Witness ==
    /\ Regime /\ pc = "loop" /\ Len(pick) = 3
    /\ \E k \in 1..3 : pick[k][1] = pick[k][2]

\* C3: with max_len_delete=false, thres1 >= thres2 and max_len >= 0, every
\* pick has off - on <= max_len, a pick closed by the max_len branch is
\* exactly (on, on + max_len), and every event of the hysteresis scan that is
\* longer than max_len is returned as (on, on + max_len).
C3_Truncated ==
    (Regime /\ ~max_len_delete) =>
        /\ \A k \in 1..Len(pick) : pick[k][2] - pick[k][1] <= max_len
        /\ \A k \in forced : pick[k][2] = pick[k][1] + max_len
        /\ Returned =>
              LET h == Hysteresis(charfct, thres1, thres2)
              IN  \A e \in 1..Len(h) :
                      h[e][2] - h[e][1] > max_len =>
                          \E k \in 1..Len(pick) :
                              pick[k] = <<h[e][1], h[e][1] + max_len>>

\* two events, both longer than max_len, both returned truncated
C3_Witness ==
    /\ Returned /\ Regime /\ ~max_len_delete /\ max_len < MaxLenDefault
    /\ Len(pick) = 2 /\ forced = {1, 2}
    /\ Len(Hysteresis(charfct, thres1, thres2)) = 2

\* the picks of a list with off - on <= ml
Within(picks, ml) == SelectSeq(picks, LAMBDA p : p[2] - p[1] <= ml)

\* C4: with max_len_delete=true and thres1 >= thres2, the result equals the
\* list returned with unbounded max_len and max_len_delete=false, restricted
\* to the picks with off - on <= max_len.
C4_DeleteIsFilter ==
    (Returned /\ Regime /\ max_len_delete) =>
        pick = Within(triggerOnset(charfct, thres1, thres2, MaxLenDefault,
                                   FALSE).pick, max_len)

\* the indices after index `after` whose sample exceeds thres1
Above1After(after) ==
    {j \in 0..(M - 1) : j > after /\ charfct[j + 1] > thres1}

Min(S) == CHOOSE x \in S : \A y \in S : x <= y

\* C5: with max_len_delete=false, after a pick truncated at on + max_len, if
\* any sample with a greater index exceeds thres1, the next pick exists and
\* its onset is the first such index.
C5_RetriggerAtOnce ==
    (Returned /\ Regime /\ ~max_len_delete) =>
        \A k \in forced :
            Above1After(pick[k][2]) # {} =>
                /\ k + 1 <= Len(pick)
                /\ pick[k + 1][1] = Min(Above1After(pick[k][2]))

\* C6: every returned pick has on in [0, m) and off in [0, m), except for the
\* sentinel offset, which occurs only when the characteristic function still
\* exceeds thres2 at the last sample m-1.
C6_IndicesInRange ==
    (Returned /\ Regime) =>
        \A k \in 1..Len(pick) :
            /\ pick[k][1] \in 0..(M - 1)
            /\ \/ pick[k][2] \in 0..(M - 1)
               \/ pick[k][2] = OfInf /\ charfct[M] > thres2

\* the number of onset candidates the merge loop starts with
OnsetCandidates == Len(OnQueue(Where(charfct, thres1), max_len_delete))

\* what C10 says of every case: no queue is read while empty, the number of
\* outer iterations is at most the number of onset candidates plus one, and
\* the call is never stuck before it returns
LoopTerminates ==
    /\ pc # "IndexError"
    /\ pc \in {"loop", "done"} /\ iters > 0 => iters <= OnsetCandidates + 1
    /\ pc \in {"start", "loop"} => ENABLED Next

\* C10 as stated: the merge loop terminates as above, and every outer
\* iteration after the first removes at least one onset candidate.
C10_EveryIterationRemoves ==
    Regime => /\ LoopTerminates
              /\ iters >= 2 => popped >= 1

\* C10 as amended: every outer iteration after the first removes at least
\* one onset candidate unless the iteration before it dropped its onset
\* candidate in the max_len_delete branch.
C10_IterationRemovesUnlessAfterDelete ==
    Regime => /\ LoopTerminates
              /\ (iters >= 2 /\ prevBranch # "delete") => popped >= 1

\* an iteration that followed a dropped event has emitted a pick without
\* removing an onset candidate
C10_Witness ==
    /\ Regime /\ pc = "loop" /\ max_len_delete
    /\ iters >= 2 /\ prevBranch = "delete" /\ branch = "pick" /\ popped = 0

\* C7: a characteristic function called with a non-positive nsta, a
\* non-positive nlta or an empty waveform ends in an error instead of
\* returning a characteristic-function array.
C7_FailFast ==
    (cpc = "done" /\ (nsta <= 0 \/ nlta <= 0 \/ a = <<>>))
        => result.kind = "error"

\* a[lo]^2 + ... + a[hi]^2
SumSq(w, lo, hi) == Sum([j \in 0..(hi - lo) |-> Sq(w[lo + j + 1])], hi - lo + 1)

\* the value of a fraction <<numerator, denominator>> as numpy divides
Kind(x) == IF x[2] # 0 THEN "finite" ELSE IF x[1] = 0 THEN "nan" ELSE "inf"
SameValue(x, y) ==
    /\ Kind(x) = Kind(y)
    /\ Kind(x) = "finite" => x[1] * y[2] = y[1] * x[2]

\* C8: for 1 <= nsta < nlta <= m and nlta <= t < m, the output of
\* classicSTALTA at t is the mean of a[j]^2 over j = t-nsta+1 .. t divided by
\* the mean of a[j]^2 over j = t-nlta+1 .. t; every output below nlta is 0.
C8_WindowsEndAtT ==
    (cpc = "done" /\ fn = "classicSTALTA" /\ nsta < nlta) =>
        \A t \in 0..(Len(a) - 1) :
            IF t < nlta
            THEN SameValue(result.val[t + 1], Zero)
            ELSE SameValue(result.val[t + 1],
                           <<SumSq(a, t - nsta + 1, t) * nlta,
                             SumSq(a, t - nlta + 1, t) * nsta>>)

\* C9: the output of delayedSTALTA at every index i depends only on a[0..i]:
\* a waveform of the same length that agrees with a on a[0..i] gives the same
\* output at index i.
C9_NoWrapToTail ==
    (cpc = "done" /\ fn = "delayedSTALTA" /\ result.kind = "array") =>
        \A b \in DelayedWaves :
            Len(b) = Len(a) =>
                LET rb == delayedSTALTA(b, nsta, nlta)
                IN  \A i \in 0..(Len(a) - 1) :
                        (\A j \in 0..i : a[j + 1] = b[j + 1]) =>
                            SameValue(result.val[i + 1], rb.val[i + 1])

====
